---- MODULE Spec2Model ----
(***************************************************************************)
(* MCP weather server: the JSON-RPC engine of the HTTP transport           *)
(* (src/src/http_server.py), the tool handler of the stdio transport       *)
(* (src/src/server.py, src/src/main.py), the weather tool                  *)
(* (src/src/tools/weather.py) and the Azure AD key-set cache               *)
(* (src/src/auth.py).                                                      *)
(*                                                                         *)
(* JSON values are tagged records [t, v]: t is the JSON type ("absent" is  *)
(* a key that is missing, which dict.get turns into None) and v the text   *)
(* of the value as a sequence of characters (digits for a number).         *)
(***************************************************************************)
EXTENDS Integers, Sequences, FiniteSets, TLC

\* ------------------------------------------------------------------ bounds
\* Request ids run over 0..MaxId.
MaxId == 1
\* The count of failed exchanges is followed up to this value.
MaxErrors == 2

\* Clock steps taken in a run of the key-set cache.
MaxTicks == 2
\* Requests a client session sends in a run.
MaxMsgId == 3

\* --------------------------------------------------------- program constants
\* The freshness window of the key-set cache, in seconds (auth.py:77).
CacheTtl == 3600
TempMinC == 0
TempMaxC == 35
TempMinF == 32
TempMaxF == 95
InternalErrorCode == -32603

\* ------------------------------------------------------------- JSON values
JV(t, v) == [t |-> t, v |-> v]
Absent == JV("absent", <<>>)
Null == JV("null", <<>>)
Str(s) == JV("str", s)
Num(d) == JV("num", d)

\* Python truthiness of a JSON value (`not x`): None, "" and 0 are false.
Falsy(x) ==
    \/ x.t \in {"absent", "null"}
    \/ x.t = "str" /\ x.v = <<>>
    \/ x.t = "num" /\ x.v = <<"0">>

\* str(x) / f"{x}" of a JSON value.
PyStr(x) ==
    IF x.t \in {"absent", "null"} THEN <<"None">> ELSE x.v

\* Characters are one-character strings, and a run of plain ASCII letters
\* may stand as one element.  These are the characters json.dumps treats
\* specially: the two it must escape, and those outside ASCII.
Quote == "\""
Backslash == "\\"
EAcute == "U+00E9"
EGrave == "U+00E8"
Degree == "U+00B0"
NonAscii == {EAcute, EGrave, Degree}

\* The \uXXXX escape of a character outside ASCII, and back.
UEscape(c) == CASE c = EAcute -> "u00e9" [] c = EGrave -> "u00e8" [] c = Degree -> "u00b0"
UUnescape(e) == CASE e = "u00e9" -> EAcute [] e = "u00e8" -> EGrave [] e = "u00b0" -> Degree [] OTHER -> e

\* ------------------------------------------------------ json.dumps / loads
DigitChar(d) ==
    CASE d = 0 -> "0" [] d = 1 -> "1" [] d = 2 -> "2" [] d = 3 -> "3" [] d = 4 -> "4"
      [] d = 5 -> "5" [] d = 6 -> "6" [] d = 7 -> "7" [] d = 8 -> "8" [] d = 9 -> "9"

DigitVal(c) ==
    CASE c = "0" -> 0 [] c = "1" -> 1 [] c = "2" -> 2 [] c = "3" -> 3 [] c = "4" -> 4
      [] c = "5" -> 5 [] c = "6" -> 6 [] c = "7" -> 7 [] c = "8" -> 8 [] c = "9" -> 9

RECURSIVE IntDigits(_)
IntDigits(n) ==
    IF n < 10 THEN <<DigitChar(n)>> ELSE Append(IntDigits(n \div 10), DigitChar(n % 10))

RECURSIVE DigitsInt(_)
DigitsInt(d) ==
    IF Len(d) = 1 THEN DigitVal(d[1])
    ELSE 10 * DigitsInt(SubSeq(d, 1, Len(d) - 1)) + DigitVal(d[Len(d)])

\* The escaping json.dumps applies inside a string literal: a quote and a
\* backslash get a backslash before them; with ensure_ascii a character
\* outside ASCII becomes its \uXXXX escape.
RECURSIVE EscapeChars(_, _)
EscapeChars(s, ensure_ascii) ==
    IF s = <<>> THEN <<>>
    ELSE LET c == Head(s)
             e == IF c = Quote \/ c = Backslash THEN <<Backslash, c>>
                  ELSE IF c \in NonAscii /\ ensure_ascii THEN <<Backslash, UEscape(c)>>
                  ELSE <<c>>
         IN e \o EscapeChars(Tail(s), ensure_ascii)

RECURSIVE UnescapeChars(_)
UnescapeChars(s) ==
    IF s = <<>> THEN <<>>
    ELSE IF Head(s) = Backslash /\ Len(s) >= 2
         THEN <<UUnescape(s[2])>> \o UnescapeChars(SubSeq(s, 3, Len(s)))
         ELSE <<Head(s)>> \o UnescapeChars(Tail(s))

\* The literal json.dumps writes for one value.
JsonLiteral(x, ensure_ascii) ==
    CASE x.t = "str" -> <<Quote>> \o EscapeChars(x.v, ensure_ascii) \o <<Quote>>
      [] x.t = "num" -> x.v
      [] x.t = "bool" -> x.v
      [] OTHER -> <<"null">>

\* The place of the quote that closes a string literal, looked for from i:
\* the first quote with no backslash before it (0 when there is none).
RECURSIVE CloseQuote(_, _)
CloseQuote(lit, i) ==
    IF i > Len(lit) THEN 0
    ELSE IF lit[i] = Backslash THEN CloseQuote(lit, i + 2)
    ELSE IF lit[i] = Quote THEN i
    ELSE CloseQuote(lit, i + 1)

\* The value json.loads reads from one literal; a string literal that does
\* not end at its closing quote is no JSON (JSONDecodeError).
JsonValue(lit) ==
    IF lit = <<"null">> THEN Null
    ELSE IF lit = <<"true">> \/ lit = <<"false">> THEN JV("bool", lit)
    ELSE IF Head(lit) = Quote
         THEN IF CloseQuote(lit, 2) = Len(lit)
              THEN Str(UnescapeChars(SubSeq(lit, 2, Len(lit) - 1)))
              ELSE JV("invalid", <<>>)
    ELSE Num(lit)

\* A JSON object is the sequence of its members, each the path of keys to a
\* leaf and the leaf's value; its text holds the leaf's literal instead.
JsonDumps(members, ensure_ascii) ==
    [i \in 1..Len(members) |->
        [path |-> members[i].path, lit |-> JsonLiteral(members[i].val, ensure_ascii)]]

JsonLoads(text) ==
    [i \in 1..Len(text) |-> [path |-> text[i].path, val |-> JsonValue(text[i].lit)]]

HasMember(obj, path) == \E i \in 1..Len(obj) : obj[i].path = path

Member(obj, path) ==
    IF HasMember(obj, path)
    THEN obj[CHOOSE i \in 1..Len(obj) : obj[i].path = path].val
    ELSE Absent

\* -------------------------------------------------------- the weather tool
GetWeather == <<"get_weather">>
Celsius == <<"celsius">>
Fahrenheit == <<"fahrenheit">>

\* random.randint(32, 95) for fahrenheit, random.randint(0, 35) otherwise.
TempRange(unit) ==
    IF unit = Str(Fahrenheit) THEN TempMinF..TempMaxF ELSE TempMinC..TempMaxC

TempUnit(unit) ==
    IF unit = Str(Fahrenheit) THEN <<Degree, "F">> ELSE <<Degree, "C">>

\* WeatherTool.execute: the result for `city` and `unit`, temp being the
\* random draw.  The other fields of "data" (condition, humidity, wind,
\* pressure, visibility, uv index, timestamp, forecast) are further
\* independent draws that no operation reads; they are left out.
Execute(city, unit, temp) ==
    << [path |-> <<"success">>, val |-> JV("bool", <<"true">>)],
       [path |-> <<"data", "city">>, val |-> city],
       [path |-> <<"data", "temperature">>, val |-> Num(IntDigits(temp))],
       [path |-> <<"data", "unit">>, val |-> Str(TempUnit(unit))],
       [path |-> <<"message">>,
        val |-> Str(<<"Donn", EAcute, "es m", EAcute, "t", EAcute, "o r", EAcute,
                      "cup", EAcute, "r", EAcute, "es pour ">> \o PyStr(city))] >>

\* The descriptor of get_weather as handle_list_tools writes it.
WeatherDescriptor ==
    [name |-> GetWeather,
     description |-> <<"R", EAcute, "cup", EGrave, "re les informations m", EAcute,
                       "t", EAcute, "orologiques pour une ville donn", EAcute, "e">>,
     schemaKey |-> "inputSchema",
     properties |-> {"city", "unit"},
     cityDescription |-> <<"Nom de la ville">>,
     required |-> {"city"}]

\* The descriptor of get_weather as GET /tools writes it (http_server.py:124-142).
ToolsEndpointDescriptor ==
    [name |-> GetWeather,
     description |-> <<"R", EAcute, "cup", EGrave, "re les informations m", EAcute,
                       "t", EAcute, "orologiques pour une ville donn", EAcute, "e">>,
     schemaKey |-> "parameters",
     properties |-> {"city", "unit"},
     cityDescription |-> <<"Nom de la ville">>,
     required |-> {"city"}]

\* The Tool the stdio server registers (server.py:27-31) from the fields of
\* WeatherTool (weather.py:14-31).
RegisteredDescriptor ==
    [name |-> GetWeather,
     description |-> <<"R", EAcute, "cup", EGrave, "re les conditions m", EAcute,
                       "t", EAcute, "orologiques pour une ville donn", EAcute, "e">>,
     schemaKey |-> "inputSchema",
     properties |-> {"city", "unit"},
     cityDescription |-> <<"Nom de la ville pour laquelle r", EAcute, "cup", EAcute,
                           "rer la m", EAcute, "t", EAcute, "o">>,
     required |-> {"city"}]

\* ------------------------------------------------------- requests, outcomes
IntId(n) == [t |-> "int", n |-> n]
NoId == [t |-> "absent", n |-> 0]

NoResult == [kind |-> "none"]
NoError == [code |-> 0, message |-> <<>>, data |-> <<>>]

ResultEnvelope(id, result) ==
    [jsonrpc |-> "2.0", keys |-> {"jsonrpc", "id", "result"}, id |-> id,
     result |-> result, error |-> NoError]

\* Mutant: the error envelope also writes "result": null.
ErrorEnvelope_WithResult(id, code, message, data) ==
    [jsonrpc |-> "2.0", keys |-> {"jsonrpc", "id", "result", "error"}, id |-> id,
     result |-> NoResult, error |-> [code |-> code, message |-> message, data |-> data]]

ErrorEnvelope(id, code, message, data) ==
    [jsonrpc |-> "2.0", keys |-> {"jsonrpc", "id", "error"}, id |-> id,
     result |-> NoResult, error |-> [code |-> code, message |-> message, data |-> data]]

\* A body that is no JSON-RPC envelope: FastAPI's {"detail": ...}.
DetailBody == 
    [jsonrpc |-> "", keys |-> {"detail"}, id |-> NoId, result |-> NoResult, error |-> NoError]

\* The body of GET /tools: {"tools": [...]}.
ToolsBody(tools) ==
    [jsonrpc |-> "", keys |-> {"tools"}, id |-> NoId, result |-> NoResult, error |-> NoError,
     tools |-> tools]

NoExc == [type |-> "", text |-> <<>>]

\* What a call does: it returns (an HTTP status and a body) or it raises;
\* executed tells whether WeatherTool.execute ran.
Return(status, body, executed) ==
    [kind |-> "return", status |-> status, body |-> body, exc |-> NoExc, executed |-> executed]

Raise(type, text, executed) ==
    [kind |-> "raise", status |-> 0, body |-> DetailBody,
     exc |-> [type |-> type, text |-> text], executed |-> executed]

\* dict.get(key) on request.params and on arguments; arguments that is not
\* given defaults to {}.
EmptyArgs == [t |-> "obj", city |-> Absent, unit |-> Absent]
ArgsOf(params) == IF params.arguments.t = "absent" THEN EmptyArgs ELSE params.arguments
UnitOf(arguments) == IF arguments.unit.t = "absent" THEN Str(Celsius) ELSE arguments.unit

\* ------------------------------------------------- HTTP: the /mcp handlers
MsgToolNameRequired == <<"Nom de l'outil requis">>
MsgCityRequired == <<"Le param", EGrave, "tre 'city' est requis">>
MsgUnknownTool(name) == <<"Outil inconnu: ">> \o PyStr(name)
MsgNoGet(x) == <<"'", (IF x.t = "null" THEN "NoneType" ELSE x.t), "' object has no attribute 'get'">>
MsgToolFailed == <<"Erreur lors de l'ex", EAcute, "cution de l'outil">>
MsgInternal == <<"Erreur interne du serveur">>
MsgUnsupported(method) == <<"400: M", EAcute, "thode non support", EAcute, "e: ", method>>

\* handle_initialize
HandleInitialize(req) ==
    Return(200,
           ResultEnvelope(req.id,
               [kind |-> "initialize", protocolVersion |-> "2024-11-05",
                capabilities |-> {"tools"},
                serverInfo |-> [name |-> "mcp-weather-server", version |-> "1.0.0"]]),
           FALSE)

\* handle_list_tools
HandleListTools(req) ==
    Return(200, ResultEnvelope(req.id, [kind |-> "tools", tools |-> <<WeatherDescriptor>>]), FALSE)

\* The single text item that wraps a tool result (http_server.py:266-271).
TextContent(text) == [type |-> "text", text |-> text]

\* The result envelope around a tool result: one text item holding
\* json.dumps(result, ensure_ascii=False) (http_server.py:262-273).
ContentResult(id, members) ==
    ResultEnvelope(id, [kind |-> "content",
                        content |-> <<TextContent(JsonDumps(members, FALSE))>>])

\* Mutant: city and unit handed to execute in the wrong order.
WeatherBranch_Swapped(req, arguments, temp) ==
    IF arguments.t # "obj" THEN Raise("AttributeError", MsgNoGet(arguments), FALSE)
    ELSE LET city == arguments.city
             unit == UnitOf(arguments)
         IN IF Falsy(city) THEN Raise("ValueError", MsgCityRequired, FALSE)
            ELSE Return(200, ContentResult(req.id, Execute(unit, city, temp)), TRUE)

\* The get_weather branch of handle_tool_call (http_server.py:248-273).
WeatherBranch(req, arguments, temp) ==
    IF arguments.t # "obj" THEN Raise("AttributeError", MsgNoGet(arguments), FALSE)
    ELSE LET city == arguments.city
             unit == UnitOf(arguments)
         IN IF Falsy(city) THEN Raise("ValueError", MsgCityRequired, FALSE)
            ELSE Return(200, ContentResult(req.id, Execute(city, unit, temp)), TRUE)

\* Mutant: the tool name is not checked for being there.
ToolCallBody_NoNameCheck(req, temp) ==
    IF req.params.name = Str(GetWeather)
    THEN WeatherBranch(req, ArgsOf(req.params), temp)
    ELSE Raise("ValueError", MsgUnknownTool(req.params.name), FALSE)

\* The try block of handle_tool_call: the response it returns, or the
\* exception it raises.
ToolCallBody(req, temp) ==
    LET tool_name == req.params.name
        arguments == ArgsOf(req.params)
    IN IF Falsy(tool_name) THEN Raise("ValueError", MsgToolNameRequired, FALSE)
       ELSE IF tool_name = Str(GetWeather) THEN WeatherBranch(req, arguments, temp)
       ELSE Raise("ValueError", MsgUnknownTool(tool_name), FALSE)

\* Mutant: the except clause answers without the request's id.
HandleToolCall_NullId(req, temp) ==
    LET out == ToolCallBody(req, temp)
    IN IF out.kind = "raise"
       THEN Return(200, ErrorEnvelope(NoId, InternalErrorCode, MsgToolFailed, out.exc.text),
                   out.executed)
       ELSE out

\* handle_tool_call: its except clause turns every exception of the try
\* block into a returned error envelope (HTTP 200).
HandleToolCall(req, temp) ==
    LET out == ToolCallBody(req, temp)
    IN IF out.kind = "raise"
       THEN Return(200, ErrorEnvelope(req.id, InternalErrorCode, MsgToolFailed, out.exc.text),
                   out.executed)
       ELSE out

\* The try block of handle_mcp_request: dispatch on the method.
Dispatch(req, temp) ==
    IF req.method = "tools/call" THEN HandleToolCall(req, temp)
    ELSE IF req.method = "tools/list" THEN HandleListTools(req)
    ELSE IF req.method = "initialize" THEN HandleInitialize(req)
    ELSE Raise("HTTPException", MsgUnsupported(req.method), FALSE)

\* Mutant: the JSONResponse of the except clause is given no status_code.
HandleMcpRequest_Status200(req, temp) ==
    LET out == Dispatch(req, temp)
    IN IF out.kind = "raise"
       THEN Return(200, ErrorEnvelope(req.id, InternalErrorCode, MsgInternal, out.exc.text),
                   out.executed)
       ELSE out

\* handle_mcp_request: its except clause answers every exception of the try
\* block, the HTTPException(400) it raises itself included, with status 500.
HandleMcpRequest(req, temp) ==
    LET out == Dispatch(req, temp)
    IN IF out.kind = "raise"
       THEN Return(500, ErrorEnvelope(req.id, InternalErrorCode, MsgInternal, out.exc.text),
                   out.executed)
       ELSE out

\* `from .auth import verify_azure_token` (http_server.py:15-19): auth.py
\* defines no verify_azure_token, so the import raises and the flag is False.
HAS_AZURE_AUTH == FALSE

\* The fallback verify_azure_token of http_server.py:21-22 returns None.
VerifyAzureTokenFallback(token) == "allow"

\* verify_auth: the dependency of POST /mcp and GET /tools.  configured:
\* the three AZURE_AD_* variables are all set.
VerifyAuth(configured, header) ==
    IF ~HAS_AZURE_AUTH \/ ~configured THEN "allow"
    ELSE IF header # "Bearer" THEN "401"
    ELSE VerifyAzureTokenFallback(header)

\* The MCPRequest model: id and method are required, params is a mapping
\* ({} when missing).
ValidRequest(req) ==
    req.id.t = "int" /\ req.method # "absent" /\ req.params.t = "obj"

\* POST /mcp: the body is validated (422 when it is no MCPRequest), the auth
\* dependency runs, then handle_mcp_request.  An exception that would leave
\* the route is answered by the framework's plain 500.
PostMcp(req, temp, configured) ==
    IF ~ValidRequest(req) THEN Return(422, DetailBody, FALSE)
    ELSE IF VerifyAuth(configured, req.auth) # "allow" THEN Return(401, DetailBody, FALSE)
    ELSE LET out == HandleMcpRequest(req, temp)
         IN IF out.kind = "raise" THEN [out EXCEPT !.status = 500] ELSE out

\* GET /tools (list_tools, http_server.py:114-149): the auth dependency
\* runs, then the route writes its own list of descriptors.
GetTools(configured, header) ==
    IF VerifyAuth(configured, header) # "allow" THEN Return(401, DetailBody, FALSE)
    ELSE Return(200, ToolsBody(<<ToolsEndpointDescriptor>>), FALSE)

\* -------------------------------------------- stdio: the call_tool handler
MsgExecFailed(text) == <<"Erreur lors de l'ex", EAcute, "cution: ">> \o text

ErrorPayload(text) == << [path |-> <<"error">>, val |-> Str(text)] >>

\* What handle_call_tool returns is the list body.result.content: one
\* TextContent.  The JSON-RPC envelope around it (and its id) is written by
\* the mcp library and is not modelled.
StdioReturn(text, executed) ==
    Return(0, ResultEnvelope(NoId, [kind |-> "content", content |-> <<TextContent(text)>>]),
           executed)

\* Mutant: the city is not checked for being there.
CallToolTry_NoCityCheck(arguments, temp) ==
    IF arguments.t # "obj" THEN Raise("AttributeError", MsgNoGet(arguments), FALSE)
    ELSE LET city == IF arguments.city.t = "absent" THEN Str(<<>>) ELSE arguments.city
             unit == UnitOf(arguments)
         IN StdioReturn(JsonDumps(Execute(city, unit, temp), FALSE), TRUE)

\* The try block of the get_weather branch of handle_call_tool
\* (server.py:41-58); json.dumps(result, indent=2, ensure_ascii=False) for
\* the tool's result, json.dumps with its defaults for an error payload.
CallToolTry(arguments, temp) ==
    IF arguments.t # "obj" THEN Raise("AttributeError", MsgNoGet(arguments), FALSE)
    ELSE LET city == IF arguments.city.t = "absent" THEN Str(<<>>) ELSE arguments.city
             unit == UnitOf(arguments)
         IN IF Falsy(city)
            THEN StdioReturn(JsonDumps(ErrorPayload(MsgCityRequired), TRUE), FALSE)
            ELSE StdioReturn(JsonDumps(Execute(city, unit, temp), FALSE), TRUE)

\* Mutant: an unknown tool raises instead of returning an error payload.
HandleCallTool_RaiseUnknown(name, arguments, temp) ==
    IF name = Str(GetWeather)
    THEN LET out == CallToolTry(arguments, temp)
         IN IF out.kind = "raise"
            THEN StdioReturn(JsonDumps(ErrorPayload(MsgExecFailed(out.exc.text)), TRUE),
                             out.executed)
            ELSE out
    ELSE Raise("ValueError", MsgUnknownTool(name), FALSE)

\* Mutant: the get_weather branch has no except clause.
HandleCallTool_NoCatch(name, arguments, temp) ==
    IF name = Str(GetWeather) THEN CallToolTry(arguments, temp)
    ELSE StdioReturn(JsonDumps(ErrorPayload(MsgUnknownTool(name)), TRUE), FALSE)

\* handle_call_tool(name, arguments)
HandleCallTool(name, arguments, temp) ==
    IF name = Str(GetWeather)
    THEN LET out == CallToolTry(arguments, temp)
         IN IF out.kind = "raise"
            THEN StdioReturn(JsonDumps(ErrorPayload(MsgExecFailed(out.exc.text)), TRUE),
                             out.executed)
            ELSE out
    ELSE StdioReturn(JsonDumps(ErrorPayload(MsgUnknownTool(name)), TRUE), FALSE)

\* ------------------------------------------------------------- the inputs
Ids == {IntId(n) : n \in 0..MaxId} \cup {NoId}
Methods == {"initialize", "tools/list", "tools/call", "notifications/initialized", "absent"}
Names == {Absent, Null, Str(<<>>), Str(GetWeather), Str(<<"get_forecast">>), Num(<<"7">>)}
CityNames ==
    {<<>>, <<"Paris">>, <<"Orl", EAcute, "ans">>, <<"a", Quote, "b">>, <<Backslash, "n">>, <<"null">>}
Cities == {Absent, Null, Num(<<"0">>), Num(<<"7">>)} \cup {Str(c) : c \in CityNames}
Units == {Absent, Str(Celsius), Str(Fahrenheit), Str(<<"kelvin">>)}
NotAMapping == {[t |-> k, city |-> Absent, unit |-> Absent] : k \in {"absent", "null", "str"}}
Arguments == NotAMapping \cup {[t |-> "obj", city |-> c, unit |-> u] : c \in Cities, u \in Units}
Params ==
    {[t |-> "list", name |-> Absent, arguments |-> [t |-> "absent", city |-> Absent, unit |-> Absent]]}
    \cup {[t |-> "obj", name |-> n, arguments |-> a] : n \in Names, a \in Arguments}
Headers == {"absent", "Bearer"}
\* Only tools/call reads params: the other methods carry a few params only.
FewParams ==
    {p \in Params : p.t = "list" \/ (p.arguments.t = "absent" /\ p.name \in {Absent, Str(GetWeather)})}
Requests ==
    [id : Ids, method : {"tools/call"}, params : Params, auth : Headers]
    \cup [id : Ids, method : Methods \ {"tools/call"}, params : FewParams, auth : Headers]

NoReq == [id |-> NoId, method |-> "absent",
          params |-> [t |-> "obj", name |-> Absent,
                      arguments |-> [t |-> "absent", city |-> Absent, unit |-> Absent]],
          auth |-> "absent"]
NoResp == [kind |-> "none", status |-> 0, body |-> DetailBody, exc |-> NoExc, executed |-> FALSE]

\* ------------------------------------------------------------------ state
VARIABLES
    mode,        \* which entry point the process runs: "http" (http_server.py) or "stdio" (main.py)
    azureEnv,    \* whether AZURE_AD_TENANT_ID, _CLIENT_ID and _CLIENT_SECRET are all set
    mcp_server,  \* http_server.mcp_server: "None" or "created"
    proc,        \* the stdio process: "running", "stopped" (main returned), "exited" (sys.exit(1)); "none" under http
    phase,       \* "idle", "pending" (a message is in flight), "responded"
    req,         \* the message in flight or just answered
    resp,        \* what the server did with it
    errors,      \* failed exchanges so far, followed up to MaxErrors
    handshake    \* history: an initialize request has been dispatched by POST /mcp

protoVars == <<mode, azureEnv, mcp_server, proc, phase, req, resp, errors, handshake>>

\* The state of auth.py's AzureADAuth object and of the validations that use it.
VARIABLES
    clock,            \* datetime.now(timezone.utc), in seconds
    ticks,            \* clock steps taken
    jwks_cache,       \* AzureADAuth.jwks_cache
    jwks_cache_time,  \* AzureADAuth.jwks_cache_time
    task,             \* each running validate_token: where it is, its token, its `now`
    last_fetch,       \* the `now` of the latest validation that issued a fetch
    fetched_at,       \* when the response that holds the cached key set arrived
    done              \* the latest validation that ended: its `now`, whether it fetched, its token, how it ended

\* A request to a route guarded by require_role.
VARIABLES
    role_user,        \* the claims get_current_user returned
    role_required,    \* the role the route requires
    role_out          \* what role_checker did: nothing yet, the claims returned, or 403

roleVars == <<role_user, role_required, role_out>>

\* A stdio client session (MCPPerfectClient of test/test_mcp_server.py,
\* MCPWeatherServer of test/test_claude_api.py) and the server it spawns.
VARIABLES
    process,          \* self.process: "None" or "Process"
    child,            \* the spawned server: "none", "running", "terminating" (SIGTERM sent), "exited"
    message_id,       \* self.message_id
    initialized,      \* self.initialized
    to_server,        \* lines written to the child's stdin that it has not read yet
    from_server,      \* lines the child wrote to its stdout that the client has not read yet
    call,             \* the client method that is running and the id of its request
    ret,              \* what the latest client method got from send_message and returned
    trace             \* history: notification written, terminate() called, kill() called

clientVars ==
    <<process, child, message_id, initialized, to_server, from_server, call, ret, trace>>

authVars ==
    <<clock, ticks, jwks_cache, jwks_cache_time, task, last_fetch, fetched_at, done, roleVars,
      clientVars>>

\* Everything but the client session.
nonClientVars ==
    <<protoVars, clock, ticks, jwks_cache, jwks_cache_time, task, last_fetch, fetched_at, done,
      roleVars>>

\* The text payload of a content result, read back with json.loads.
Payload(out) == JsonLoads(out.body.result.content[1].text)

HasContent(out) == out.kind = "return" /\ "result" \in out.body.keys /\ out.body.result.kind = "content"

\* An exchange failed: a status other than 200, an error member, an
\* exception, or a tool payload that holds "error".
Failed(out) ==
    \/ out.kind = "raise"
    \/ out.status \notin {0, 200}
    \/ "error" \in out.body.keys
    \/ HasContent(out) /\ HasMember(Payload(out), <<"error">>)

Bump(n, out) == IF Failed(out) /\ n < MaxErrors THEN n + 1 ELSE n

ProtoInit ==
    /\ mode \in {"http", "stdio"}
    /\ azureEnv \in BOOLEAN
    /\ mcp_server = "None"
    /\ proc = IF mode = "stdio" THEN "running" ELSE "none"
    /\ phase = "idle"
    /\ req = NoReq
    /\ resp = NoResp
    /\ errors = 0
    /\ handshake = FALSE

\* A client posts a body to /mcp.
HttpSend ==
    /\ mode = "http" /\ phase = "idle"
    /\ phase' = "pending"
    /\ \E r \in Requests : req' = r
    /\ UNCHANGED <<mode, azureEnv, handshake, mcp_server, proc, resp, errors, authVars>>

\* The request reaches the branch of handle_mcp_request for the method.
Dispatched(r, method) ==
    ValidRequest(r) /\ VerifyAuth(azureEnv, r.auth) = "allow" /\ r.method = method

\* get_mcp_server: the server is created on first use by handle_tool_call.
GetMcpServer(server, r) == IF Dispatched(r, "tools/call") THEN "created" ELSE server

\* Mutant: tools/list and tools/call are refused until an initialize request
\* has been dispatched.
HttpHandle_NeedsHandshake ==
    /\ mode = "http" /\ phase = "pending"
    /\ LET dry == PostMcp(req, TempMinC, azureEnv)
       IN IF ~handshake /\ (Dispatched(req, "tools/list") \/ Dispatched(req, "tools/call"))
          THEN resp' = Return(500, ErrorEnvelope(req.id, InternalErrorCode, MsgInternal, <<>>),
                              FALSE)
          ELSE IF dry.executed
          THEN \E temp \in TempRange(UnitOf(ArgsOf(req.params))) :
                  resp' = PostMcp(req, temp, azureEnv)
          ELSE resp' = dry
    /\ mcp_server' = GetMcpServer(mcp_server, req)
    /\ handshake' = (handshake \/ Dispatched(req, "initialize"))
    /\ errors' = Bump(errors, resp')
    /\ phase' = "responded"
    /\ UNCHANGED <<mode, azureEnv, proc, req, authVars>>

\* The app answers the posted body.  The temperature is drawn only when
\* WeatherTool.execute runs.
HttpHandle ==
    /\ mode = "http" /\ phase = "pending"
    /\ LET dry == PostMcp(req, TempMinC, azureEnv)
       IN IF dry.executed
          THEN \E temp \in TempRange(UnitOf(ArgsOf(req.params))) :
                  resp' = PostMcp(req, temp, azureEnv)
          ELSE resp' = dry
    /\ mcp_server' = GetMcpServer(mcp_server, req)
    /\ handshake' = (handshake \/ Dispatched(req, "initialize"))
    /\ errors' = Bump(errors, resp')
    /\ phase' = "responded"
    /\ UNCHANGED <<mode, azureEnv, proc, req, authVars>>

\* A GET /tools request: it has no body.
GetToolsReq(header) == [NoReq EXCEPT !.method = "GET /tools", !.auth = header]

\* A client gets /tools and the app answers; list_tools calls get_mcp_server,
\* which creates the server on first use.
HttpGetTools ==
    /\ mode = "http" /\ phase = "idle"
    /\ \E header \in Headers :
          /\ req' = GetToolsReq(header)
          /\ resp' = GetTools(azureEnv, header)
          /\ mcp_server' = IF VerifyAuth(azureEnv, header) = "allow" THEN "created" ELSE mcp_server
    /\ errors' = Bump(errors, resp')
    /\ phase' = "responded"
    /\ UNCHANGED <<mode, azureEnv, handshake, proc, authVars>>

\* The client has read the response.
HttpRead ==
    /\ mode = "http" /\ phase = "responded"
    /\ phase' = "idle" /\ req' = NoReq /\ resp' = NoResp
    /\ UNCHANGED <<mode, azureEnv, handshake, mcp_server, proc, errors, authVars>>

\* A tools/call message reaches the server loop of main().
StdioSend ==
    /\ mode = "stdio" /\ proc = "running" /\ phase = "idle"
    /\ phase' = "pending"
    /\ \E i \in Ids \ {NoId}, n \in Names, a \in Arguments :
          req' = [id |-> i, method |-> "tools/call",
                  params |-> [t |-> "obj", name |-> n, arguments |-> a], auth |-> "absent"]
    /\ UNCHANGED <<mode, azureEnv, handshake, mcp_server, proc, resp, errors, authVars>>

\* server.run calls handle_call_tool.  The wrapper that calls the handler is
\* library code; the least favourable reading is taken: an exception that
\* leaves the handler leaves server.run and main() exits (main.py:39-41).
StdioHandle ==
    /\ mode = "stdio" /\ proc = "running" /\ phase = "pending"
    /\ LET dry == HandleCallTool(req.params.name, ArgsOf(req.params), TempMinC)
       IN IF dry.executed
          THEN \E temp \in TempRange(UnitOf(ArgsOf(req.params))) :
                  resp' = HandleCallTool(req.params.name, ArgsOf(req.params), temp)
          ELSE resp' = dry
    /\ proc' = IF resp'.kind = "raise" THEN "exited" ELSE "running"
    /\ errors' = Bump(errors, resp')
    /\ phase' = "responded"
    /\ UNCHANGED <<mode, azureEnv, handshake, mcp_server, req, authVars>>

StdioRead ==
    /\ mode = "stdio" /\ phase = "responded"
    /\ phase' = "idle" /\ req' = NoReq /\ resp' = NoResp
    /\ UNCHANGED <<mode, azureEnv, handshake, mcp_server, proc, errors, authVars>>

\* The client closes the stream, or the process gets KeyboardInterrupt:
\* server.run ends and main() returns (main.py:29-43).
StdioClose ==
    /\ mode = "stdio" /\ proc = "running"
    /\ proc' = "stopped"
    /\ phase' = "idle" /\ req' = NoReq /\ resp' = NoResp
    /\ UNCHANGED <<mode, azureEnv, handshake, mcp_server, errors, authVars>>

\* The server is started again (asyncio.run(main()), main.py:46-48).
StdioStart ==
    /\ mode = "stdio" /\ proc \in {"stopped", "exited"}
    /\ proc' = "running"
    /\ phase' = "idle" /\ req' = NoReq /\ resp' = NoResp
    /\ UNCHANGED <<mode, azureEnv, handshake, mcp_server, errors, authVars>>

\* ------------------------------------------- auth.py: the key-set cache
\* A key set as response.json() gives it: truthy is False for {} (an empty
\* mapping), kids are the key identifiers under "keys".
KeySet(truthy, kids) == [truthy |-> truthy, kids |-> kids]
EmptyCache == KeySet(FALSE, {})
\* What the key-discovery endpoint may answer: a failure (network error,
\* raise_for_status, undecodable body) or a key set.
FetchError == [ok |-> FALSE, keys |-> EmptyCache]
FetchOk(ks) == [ok |-> TRUE, keys |-> ks]
FetchResponses ==
    {FetchError, FetchOk(EmptyCache), FetchOk(KeySet(TRUE, {"k1"})), FetchOk(KeySet(TRUE, {"k1", "k2"}))}
\* The answers followed when two validations run side by side.
CacheResponses == {FetchError, FetchOk(EmptyCache), FetchOk(KeySet(TRUE, {"k1", "k2"}))}

\* jwks_cache_time = None
NoTime == -1

\* A token: whether it is a JWT at all, the kid of its header, the key that
\* signed it, its algorithm, whether aud and iss are the configured ones,
\* and its exp claim (NoTime when it has none).
Token(wellformed, kid, signer, alg, aud, iss, exp) ==
    [wellformed |-> wellformed, kid |-> kid, signer |-> signer, alg |-> alg,
     aud |-> aud, iss |-> iss, exp |-> exp]
GoodToken == Token(TRUE, "k1", "k1", "RS256", TRUE, TRUE, 20000)
RotatedToken == Token(TRUE, "k2", "k2", "RS256", TRUE, TRUE, 20000)
NotAJwt == Token(FALSE, "none", "none", "none", FALSE, FALSE, NoTime)
CacheTokens == {GoodToken, NotAJwt}

\* Further tokens: one that expires at time 1, the same with a signature
\* that is not the key's, one with no exp claim, one whose kid no key set
\* holds, one with no kid, and tokens with one wrong property each.
ShortToken == Token(TRUE, "k1", "k1", "RS256", TRUE, TRUE, 1)
ForgedShortToken == Token(TRUE, "k1", "k9", "RS256", TRUE, TRUE, 1)
NoExpToken == Token(TRUE, "k1", "k1", "RS256", TRUE, TRUE, NoTime)
UnknownKidToken == Token(TRUE, "k9", "k9", "RS256", TRUE, TRUE, 20000)
NoKidToken == Token(TRUE, "none", "k1", "RS256", TRUE, TRUE, 20000)
ForgedToken == Token(TRUE, "k1", "k9", "RS256", TRUE, TRUE, 20000)
WrongAlgToken == Token(TRUE, "k1", "k1", "HS256", TRUE, TRUE, 20000)
WrongAudToken == Token(TRUE, "k1", "k1", "RS256", FALSE, TRUE, 20000)
WrongIssToken == Token(TRUE, "k1", "k1", "RS256", TRUE, FALSE, 20000)
Tokens ==
    CacheTokens \cup {RotatedToken, ShortToken, ForgedShortToken, NoExpToken, UnknownKidToken, NoKidToken,
                      ForgedToken, WrongAlgToken, WrongAudToken, WrongIssToken}

Tasks == {"t1", "t2"}
Idle == [pc |-> "idle", token |-> GoodToken, now |-> 0, got |-> FetchError]
NoDone ==
    [now |-> NoTime, fetched |-> FALSE, status |-> 0, detail |-> "none", token |-> NotAJwt,
     access |-> [user |-> <<>>, success |-> FALSE, ip_hash |-> <<>>]]

\* The claims of a validated token: its subject and its roles claim, which
\* may be missing.
User(sub, hasRoles, roles) == [sub |-> sub, hasRoles |-> hasRoles, roles |-> roles]
NoUser == User("none", FALSE, {})
NoOut == [status |-> 0, detail |-> <<>>, user |-> NoUser]
Roles == {"admin", "user", "reader", "auditor"}
Users ==
    {User("alice", TRUE, rs) : rs \in SUBSET Roles} \cup {User("alice", FALSE, {})}

\* Mutant: the administrative role opens nothing.
RoleChecker_NoAdmin(required_role, user) ==
    LET user_roles == IF user.hasRoles THEN user.roles ELSE {}
    IN IF required_role \notin user_roles
       THEN [status |-> 403, detail |-> <<"R", "U+00F4", "le requis: ", required_role>>,
             user |-> NoUser]
       ELSE [status |-> 200, detail |-> <<>>, user |-> user]

\* role_checker of require_role(required_role) (auth.py:187-194).
RoleChecker(required_role, user) ==
    LET user_roles == IF user.hasRoles THEN user.roles ELSE {}
    IN IF required_role \notin user_roles /\ "admin" \notin user_roles
       THEN [status |-> 403, detail |-> <<"R", "U+00F4", "le requis: ", required_role>>,
             user |-> NoUser]
       ELSE [status |-> 200, detail |-> <<>>, user |-> user]

AuthInit ==
    /\ clock = 0
    /\ ticks = 0
    /\ jwks_cache = EmptyCache
    /\ jwks_cache_time = NoTime
    /\ task = [p \in Tasks |-> Idle]
    /\ last_fetch = NoTime
    /\ fetched_at = NoTime
    /\ done = NoDone
    /\ role_user = NoUser
    /\ role_required = "none"
    /\ role_out = NoOut

\* Mutant: the comparison of the age with the window is the wrong way round.
CacheHit_Reversed(cache, cache_time, now) ==
    /\ cache_time # NoTime
    /\ now - cache_time > CacheTtl
    /\ cache.truthy

\* Mutant: a cached key set is served whatever its age.
CacheHit_NoAge(cache, cache_time, now) ==
    /\ cache_time # NoTime
    /\ cache.truthy

\* The test of get_jwks (auth.py:76-78): the cached key set is served.
CacheHit(cache, cache_time, now) ==
    /\ cache_time # NoTime
    /\ now - cache_time < CacheTtl
    /\ cache.truthy

\* get_public_key (auth.py:95-123): the key of the token's kid is in jwks.
KeyFound(token, jwks) == token.kid # "none" /\ token.kid \in jwks.kids

\* What the try block of validate_token raises from get_public_key on
\* (auth.py:135-156), with the key set jwks at time t: the exception and,
\* for an HTTPException, its detail; "none" when the payload is returned.
\* jwt.decode checks the algorithm and the signature, then exp (expired when
\* exp <= now), then the issuer and the audience; it does not ask for an exp
\* claim, and line 148 reads a missing one as 0.
TryBlock(token, jwks, t) ==
    IF token.kid = "none" THEN [exc |-> "HTTPException", detail |-> "Token invalide: kid manquant"]
    ELSE IF ~KeyFound(token, jwks)
    THEN [exc |-> "HTTPException", detail |-> "Clé publique non trouvée"]
    ELSE IF token.alg # "RS256" \/ token.signer # token.kid
    THEN [exc |-> "InvalidTokenError", detail |-> ""]
    ELSE IF token.exp # NoTime /\ token.exp <= t
    THEN [exc |-> "ExpiredSignatureError", detail |-> ""]
    ELSE IF ~token.iss \/ ~token.aud THEN [exc |-> "InvalidTokenError", detail |-> ""]
    ELSE IF token.exp = NoTime THEN [exc |-> "HTTPException", detail |-> "Token expiré"]
    ELSE [exc |-> "none", detail |-> ""]

\* The except clauses of validate_token (auth.py:158-166): the detail of the
\* HTTPException(401) the caller sees, or "ok".  An HTTPException raised
\* inside the try block is neither of the two jwt errors, so the last
\* clause catches it.
ExceptClauses(raised) ==
    CASE raised.exc = "none" -> "ok"
      [] raised.exc = "ExpiredSignatureError" -> "Token expiré"
      [] raised.exc = "InvalidTokenError" -> "Token invalide"
      [] OTHER -> "Erreur d'authentification"

\* Mutant: the token's expiry is not looked at.
ValidateWith_NoExpiry(token, jwks, t) ==
    LET out == ExceptClauses(TryBlock(token, jwks, t))
    IN IF out = "Token expiré" THEN "ok" ELSE out

\* Mutant: the audience is not verified.
ValidateWith_NoAudience(token, jwks, t) ==
    ExceptClauses(TryBlock([token EXCEPT !.aud = TRUE], jwks, t))

\* validate_token from get_public_key on, as its caller sees it.
ValidateWith(token, jwks, t) == ExceptClauses(TryBlock(token, jwks, t))

\* GDPRLogger.anonymize_user_id (auth.py:39) and the same expression for the
\* address (auth.py:45): the first eight hex digits of the SHA-256 digest,
\* kept apart from the text they are taken from.
Sha256Prefix(text) == <<"sha256[:8]", text>>

\* The sub claim of the tokens and the address of their caller.
TokenSub == "alice"
ClientHost == "10.0.0.1"

\* No ACCESS line was written.
NoEntry == [user |-> <<>>, success |-> FALSE, ip_hash |-> <<>>]

\* GDPRLogger.log_access (auth.py:42-49): the ACCESS line.
LogAccess(user_id, success, ip_address) ==
    [user |-> Sha256Prefix(user_id), success |-> success,
     ip_hash |-> IF ip_address = "" THEN <<"unknown">> ELSE Sha256Prefix(ip_address)]

\* How a validation ended: every HTTPException validate_token raises has
\* status 401.  log_access is called on the path that returns the payload
\* (auth.py:152-154) and in no except clause (auth.py:158-166).
Ended(t, fetched, detail, token) ==
    [now |-> t, fetched |-> fetched, status |-> IF detail = "ok" THEN 200 ELSE 401,
     detail |-> detail, token |-> token,
     access |-> IF detail = "ok" THEN LogAccess(TokenSub, TRUE, ClientHost) ELSE NoEntry]

\* validate_token is called (get_current_user, auth.py:182): the header is
\* read, get_jwks takes `now` and tests the cache; on a hit the rest of the
\* validation runs to its end, otherwise the fetch is issued and the
\* coroutine waits for it (auth.py:82-83).
ValidateStart(p, token) ==
    /\ task[p].pc = "idle"
    /\ IF ~token.wellformed
       THEN /\ done' = Ended(clock, FALSE, "Token invalide", token)
            /\ UNCHANGED <<task, last_fetch>>
       ELSE IF CacheHit(jwks_cache, jwks_cache_time, clock)
       THEN /\ done' = Ended(clock, FALSE, ValidateWith(token, jwks_cache, clock), token)
            /\ UNCHANGED <<task, last_fetch>>
       ELSE /\ task' = [task EXCEPT ![p] = [pc |-> "fetching", token |-> token, now |-> clock,
                                            got |-> FetchError]]
            /\ last_fetch' = clock
            /\ UNCHANGED done
    /\ UNCHANGED <<clock, ticks, jwks_cache, jwks_cache_time, fetched_at, protoVars, roleVars, clientVars>>

\* Mutant: the key set is stored but its time is not.
FetchReturn_TimeNotStored(p, r) ==
    /\ task[p].pc = "fetching"
    /\ IF r.ok
       THEN /\ jwks_cache' = r.keys
            /\ fetched_at' = clock
            /\ UNCHANGED jwks_cache_time
       ELSE UNCHANGED <<jwks_cache, jwks_cache_time, fetched_at>>
    /\ task' = [task EXCEPT ![p] = [@ EXCEPT !.pc = "closing", !.got = r]]
    /\ UNCHANGED <<clock, ticks, last_fetch, done, protoVars, roleVars, clientVars>>

\* Mutant: a failed fetch records its time as the cache time.
FetchReturn_FailureStampsTime(p, r) ==
    /\ task[p].pc = "fetching"
    /\ IF r.ok
       THEN /\ jwks_cache' = r.keys
            /\ jwks_cache_time' = task[p].now
            /\ fetched_at' = clock
       ELSE /\ jwks_cache_time' = task[p].now
            /\ UNCHANGED <<jwks_cache, fetched_at>>
    /\ task' = [task EXCEPT ![p] = [@ EXCEPT !.pc = "closing", !.got = r]]
    /\ UNCHANGED <<clock, ticks, last_fetch, done, protoVars, roleVars, clientVars>>

\* The fetch of a waiting validation comes back (auth.py:83-87): a key set
\* is stored with the `now` taken before the fetch; a failure (of the GET,
\* of raise_for_status or of response.json) stores nothing.  The coroutine
\* then leaves `async with httpx.AsyncClient()` (auth.py:82), which waits
\* for the client to close: other requests run before it goes on.
FetchReturn(p, r) ==
    /\ task[p].pc = "fetching"
    /\ IF r.ok
       THEN /\ jwks_cache' = r.keys
            /\ jwks_cache_time' = task[p].now
            /\ fetched_at' = clock
       ELSE UNCHANGED <<jwks_cache, jwks_cache_time, fetched_at>>
    /\ task' = [task EXCEPT ![p] = [@ EXCEPT !.pc = "closing", !.got = r]]
    /\ UNCHANGED <<clock, ticks, last_fetch, done, protoVars, roleVars, clientVars>>

\* The client is closed and the validation runs to its end (auth.py:88-93,
\* 135-166): get_jwks returns the key set it received, which is validated
\* against at the time it now is; after a failure get_jwks raises
\* HTTPException(503), which the last except clause of validate_token
\* raises again as 401.
ValidateEnd(p) ==
    /\ task[p].pc = "closing"
    /\ done' = Ended(task[p].now, TRUE,
                     IF task[p].got.ok
                     THEN ValidateWith(task[p].token, task[p].got.keys, clock)
                     ELSE ExceptClauses([exc |-> "HTTPException",
                                         detail |-> "Service d'authentification indisponible"]),
                     task[p].token)
    /\ task' = [task EXCEPT ![p] = Idle]
    /\ UNCHANGED <<clock, ticks, jwks_cache, jwks_cache_time, last_fetch, fetched_at, protoVars,
                   roleVars, clientVars>>

\* Time passes.
Tick(d) ==
    /\ ticks < MaxTicks
    /\ ticks' = ticks + 1
    /\ clock' = clock + d
    /\ UNCHANGED <<jwks_cache, jwks_cache_time, task, last_fetch, fetched_at, done, protoVars, roleVars, clientVars>>

TickSteps == {1, CacheTtl - 1}

\* ------------------------------------------- the stdio client sessions
\* A request line and the notification line the clients write.
Message(id, method) == [id |-> id, method |-> method]
Notification == Message(0, "notifications/initialized")
\* A response line: the id it answers and whether it holds an "error" member.
Response(id, error) == [id |-> id, error |-> error]

ClientMethods == {"initialize", "get_tools", "call_weather_tool"}
MethodOf(op) ==
    CASE op = "initialize" -> "initialize"
      [] op = "get_tools" -> "tools/list"
      [] op = "call_weather_tool" -> "tools/call"

NoCall == [pc |-> "idle", op |-> "none", id |-> 0]
NoRet == [op |-> "none", sent |-> FALSE, for |-> 0, kind |-> "none", id |-> 0, error |-> FALSE,
          text |-> ""]
\* What the session has done so far: the notification reached the child's
\* pipe, terminate() and kill() were called, stop_server ended with an
\* exception instead of returning.
NoTrace == [notified |-> FALSE, terminated |-> FALSE, killed |-> FALSE, raised |-> FALSE]

\* __init__ (test_mcp_server.py:38-41, test_claude_api.py:40-44).
ClientInit ==
    /\ process = "None"
    /\ child = "none"
    /\ message_id = 0
    /\ initialized = FALSE
    /\ to_server = <<>>
    /\ from_server = <<>>
    /\ call = NoCall
    /\ ret = NoRet
    /\ trace = NoTrace

\* The guard of get_tools and call_weather_tool: nothing is sent, [] or a
\* failure value is returned.
Refused(op) == [NoRet EXCEPT !.op = op, !.kind = "refused"]
\* send_message returned {"error": text}.
ErrorValue(op, id, sent, text) ==
    [op |-> op, sent |-> sent, for |-> id, kind |-> "error", id |-> 0, error |-> TRUE,
     text |-> text]
\* send_message returned the line it read, parsed.
LineValue(op, id, line) ==
    [op |-> op, sent |-> TRUE, for |-> id, kind |-> "line", id |-> line.id, error |-> line.error,
     text |-> ""]

\* start_server / start: the child is spawned, or the spawn fails and
\* self.process stays None.
StartServer ==
    /\ call.pc = "idle" /\ process = "None"
    /\ \E spawned \in BOOLEAN :
          IF spawned THEN process' = "Process" /\ child' = "running"
          ELSE UNCHANGED <<process, child>>
    /\ UNCHANGED <<message_id, initialized, to_server, from_server, call, ret, trace, nonClientVars>>

\* initialize, get_tools or call_weather_tool is called: the guard on
\* self.initialized, get_next_id, then send_message up to its readline.  A
\* write to a child that has exited raises when the event loop has handled
\* the closing of the pipe (settled), and send_message returns the error
\* value; before that the write is lost without an exception and
\* send_message goes on to its readline.
ClientCall(op) ==
    /\ call.pc = "idle" /\ message_id < MaxMsgId
    /\ IF op # "initialize" /\ ~initialized
       THEN /\ ret' = Refused(op)
            /\ UNCHANGED <<message_id, to_server, call>>
       ELSE /\ message_id' = message_id + 1
            /\ IF process = "None"
               THEN /\ ret' = ErrorValue(op, message_id', FALSE, "Server not started")
                    /\ UNCHANGED <<to_server, call>>
               ELSE IF child = "exited"
               THEN \E settled \in BOOLEAN :
                       IF settled
                       THEN /\ ret' = ErrorValue(op, message_id', FALSE, "str(e)")
                            /\ UNCHANGED <<to_server, call>>
                       ELSE /\ call' = [pc |-> "reading", op |-> op, id |-> message_id']
                            /\ UNCHANGED <<to_server, ret>>
               ELSE /\ to_server' = Append(to_server, Message(message_id', MethodOf(op)))
                    /\ call' = [pc |-> "reading", op |-> op, id |-> message_id']
                    /\ UNCHANGED ret
    /\ UNCHANGED <<process, child, initialized, from_server, trace, nonClientVars>>

\* readline returns a line: send_message returns it whatever its id
\* (test_mcp_server.py:88-94), and get_tools or call_weather_tool returns.
\* initialize goes on when the line holds no "error": send_notification
\* writes the notification, and the call sleeps for half a second.  A write
\* to a child that has exited reaches nobody: it is lost without an
\* exception, or it raises and the exception is caught and printed
\* (test_mcp_server.py:115-116).
ReadLine ==
    /\ call.pc = "reading" /\ from_server # <<>>
    /\ LET line == Head(from_server)
       IN /\ from_server' = Tail(from_server)
          /\ ret' = LineValue(call.op, call.id, line)
          /\ IF call.op = "initialize" /\ ~line.error
             THEN /\ call' = [call EXCEPT !.pc = "sleeping"]
                  /\ trace' = [trace EXCEPT !.notified = (child # "exited")]
                  /\ to_server' = IF child # "exited" THEN Append(to_server, Notification)
                                  ELSE to_server
             ELSE /\ call' = NoCall
                  /\ UNCHANGED <<to_server, trace>>
    /\ UNCHANGED <<process, child, message_id, initialized, nonClientVars>>

\* The sleep of initialize is over: the flag is set and True is returned
\* (test_mcp_server.py:139-146).
InitializeDone ==
    /\ call.pc = "sleeping"
    /\ initialized' = TRUE
    /\ call' = NoCall
    /\ UNCHANGED <<process, child, message_id, to_server, from_server, ret, trace, nonClientVars>>

\* readline returns b"" at the end of the stream: {"error": "No response"}.
ReadEof ==
    /\ call.pc = "reading" /\ from_server = <<>> /\ child = "exited"
    /\ ret' = ErrorValue(call.op, call.id, TRUE, "No response")
    /\ call' = NoCall
    /\ UNCHANGED <<process, child, message_id, initialized, to_server, from_server, trace,
                   nonClientVars>>

\* No line within 10 seconds: {"error": "Timeout"}.  The request stays with
\* the child.
ReadTimeout ==
    /\ call.pc = "reading" /\ from_server = <<>> /\ child # "exited"
    /\ ret' = ErrorValue(call.op, call.id, TRUE, "Timeout")
    /\ call' = NoCall
    /\ UNCHANGED <<process, child, message_id, initialized, to_server, from_server, trace,
                   nonClientVars>>

\* The child reads a line: it answers a request with one line, with a result
\* or with an error, and writes nothing for a notification.
ChildAnswer ==
    /\ child = "running" /\ to_server # <<>>
    /\ to_server' = Tail(to_server)
    /\ IF Head(to_server) = Notification
       THEN UNCHANGED from_server
       ELSE \E error \in BOOLEAN :
               from_server' = Append(from_server, Response(Head(to_server).id, error))
    /\ UNCHANGED <<process, child, message_id, initialized, call, ret, trace, nonClientVars>>

\* The child exits: on SIGTERM, or on its own (main.py:37-43).  What it has
\* written stays readable.
ChildExit ==
    /\ child \in {"running", "terminating"}
    /\ child' = "exited"
    /\ to_server' = <<>>
    /\ UNCHANGED <<process, message_id, initialized, from_server, call, ret, trace, nonClientVars>>

\* stop_server / stop begins, also from the finally clause of a run that
\* failed: nothing to do without a process; otherwise terminate(), which
\* may raise ProcessLookupError for a child that has exited already, then
\* the wait of at most 3 seconds.
StopTerminate ==
    /\ call.pc = "idle"
    /\ IF process = "None"
       THEN call' = [NoCall EXCEPT !.pc = "stopped"] /\ UNCHANGED <<child, trace>>
       ELSE \E raises \in (IF child = "exited" THEN BOOLEAN ELSE {FALSE}) :
               IF raises
               THEN /\ call' = [NoCall EXCEPT !.pc = "stopped"]
                    /\ trace' = [trace EXCEPT !.raised = TRUE]
                    /\ UNCHANGED child
               ELSE /\ call' = [NoCall EXCEPT !.pc = "waiting"]
                    /\ trace' = [trace EXCEPT !.terminated = TRUE]
                    /\ child' = IF child = "running" THEN "terminating" ELSE child
    /\ UNCHANGED <<process, message_id, initialized, to_server, from_server, ret, nonClientVars>>

\* process.wait() returns within the grace period: stop_server returns.
StopWaitDone ==
    /\ call.pc = "waiting" /\ child = "exited"
    /\ call' = [NoCall EXCEPT !.pc = "stopped"]
    /\ UNCHANGED <<process, child, message_id, initialized, to_server, from_server, ret, trace,
                   nonClientVars>>

\* The 3 seconds of asyncio.wait_for run out (test_mcp_server.py:250): it
\* cancels the wait, awaits the cancellation and raises TimeoutError.  The
\* child may have exited a moment before the timer, and may exit before the
\* except clause runs.
StopGraceOver ==
    /\ call.pc = "waiting"
    /\ call' = [NoCall EXCEPT !.pc = "killing"]
    /\ UNCHANGED <<process, child, message_id, initialized, to_server, from_server, ret, trace,
                   nonClientVars>>

\* The except clause (test_mcp_server.py:252-254): kill(), with no try
\* around it.  A child that is still there is killed.  For a child that has
\* exited, kill() does nothing, or, once the event loop has closed the
\* transport, raises ProcessLookupError, which leaves stop_server and the
\* finally clause of the run.
StopKill ==
    /\ call.pc = "killing"
    /\ call' = [NoCall EXCEPT !.pc = "stopped"]
    /\ IF child # "exited"
       THEN /\ child' = "exited"
            /\ to_server' = <<>>
            /\ trace' = [trace EXCEPT !.killed = TRUE]
       ELSE /\ \E raises \in BOOLEAN :
                  trace' = [trace EXCEPT !.killed = TRUE, !.raised = raises]
            /\ UNCHANGED <<child, to_server>>
    /\ UNCHANGED <<process, message_id, initialized, from_server, ret, nonClientVars>>

\* ------------------------------------------------------ specifications
vars == <<protoVars, authVars>>
Init == ProtoInit /\ AuthInit /\ ClientInit
Next ==
    \/ HttpSend
    \/ HttpHandle
    \/ HttpRead
    \/ HttpGetTools
    \/ StdioSend
    \/ StdioHandle
    \/ StdioRead
    \/ StdioClose
    \/ StdioStart
Spec == Init /\ [][Next]_vars

\* The key-set cache of a configured HTTP deployment, on its own.
CacheInit == ProtoInit /\ mode = "http" /\ azureEnv /\ AuthInit /\ ClientInit
CacheNext ==
    \/ \E p \in Tasks, token \in CacheTokens : ValidateStart(p, token)
    \/ \E p \in Tasks, r \in CacheResponses : FetchReturn(p, r)
    \/ \E p \in Tasks : ValidateEnd(p)
    \/ \E d \in TickSteps : Tick(d)
CacheSpec == CacheInit /\ [][CacheNext]_vars

\* Token validation, one request at a time, over every kind of token.
TokenNext ==
    \/ \E token \in Tokens : ValidateStart("t1", token)
    \/ \E r \in FetchResponses : FetchReturn("t1", r)
    \/ ValidateEnd("t1")
    \/ \E d \in TickSteps : Tick(d)
TokenSpec == CacheInit /\ [][TokenNext]_vars

\* A request reaches a route guarded by require_role(required) and
\* get_current_user has returned the claims user.
RoleRequest ==
    /\ role_required = "none"
    /\ \E user \in Users, required \in Roles :
          role_user' = user /\ role_required' = required
    /\ UNCHANGED <<role_out, protoVars, clientVars, clock, ticks, jwks_cache, jwks_cache_time, task,
                   last_fetch, fetched_at, done>>

\* role_checker runs.
RoleCheck ==
    /\ role_required # "none" /\ role_out = NoOut
    /\ role_out' = RoleChecker(role_required, role_user)
    /\ UNCHANGED <<role_user, role_required, protoVars, clientVars, clock, ticks, jwks_cache,
                   jwks_cache_time, task, last_fetch, fetched_at, done>>

\* The response has been sent.
RoleRead ==
    /\ role_out # NoOut
    /\ role_user' = NoUser /\ role_required' = "none" /\ role_out' = NoOut
    /\ UNCHANGED <<protoVars, clientVars, clock, ticks, jwks_cache, jwks_cache_time, task,
                   last_fetch, fetched_at, done>>

\* The role guard on its own.
RoleNext == RoleRequest \/ RoleCheck \/ RoleRead
RoleSpec == CacheInit /\ [][RoleNext]_vars

ClientNext ==
    \/ StartServer
    \/ \E op \in ClientMethods : ClientCall(op)
    \/ ReadLine
    \/ InitializeDone
    \/ ReadEof
    \/ ReadTimeout
    \/ ChildAnswer
    \/ ChildExit
    \/ StopTerminate
    \/ StopWaitDone
    \/ StopGraceOver
    \/ StopKill
\* A client session and its server.
ClientStart == Init /\ mode = "stdio" /\ ~azureEnv
ClientSpec == ClientStart /\ [][ClientNext]_vars
\* The same, where the waits of stop_server end: asyncio.wait_for returns
\* when the child has exited or when its timeout has run out, and the
\* except clause then runs.
ClientLiveSpec ==
    ClientSpec /\ WF_vars(StopWaitDone) /\ WF_vars(StopGraceOver) /\ WF_vars(StopKill)


\* ------------------------------------------------------------- the claims
Http == mode = "http" /\ phase = "responded" /\ ValidRequest(req)
Stdio == mode = "stdio" /\ phase = "responded"
Answered == Http \/ Stdio
IsCall == req.method = "tools/call"
HasResult == "result" \in resp.body.keys
HasError == "error" \in resp.body.keys
BoolTrue == JV("bool", <<"true">>)
BoolFalse == JV("bool", <<"false">>)
\* A well-formed call of get_weather with a city that is there.
GoodCall == IsCall /\ req.params.name = Str(GetWeather)
            /\ ArgsOf(req.params).t = "obj" /\ ~Falsy(ArgsOf(req.params).city)
\* A call of get_weather whose city is absent or empty.
NoCityCall == IsCall /\ req.params.name = Str(GetWeather)
              /\ ArgsOf(req.params).t = "obj" /\ Falsy(ArgsOf(req.params).city)
\* The response is a result of exactly one text item.
OneTextItem ==
    /\ HasContent(resp)
    /\ Len(resp.body.result.content) = 1
    /\ resp.body.result.content[1].type = "text"

\* C1: on the HTTP transport, the response to every request that carries an
\* id (whatever its method and params, whether it succeeds or fails) is an
\* envelope that carries exactly that id.
C1_IdEchoed == Http => "id" \in resp.body.keys /\ resp.body.id = req.id

C1_Witness ==
    Http /\ IsCall /\ HasError /\ req.id = IntId(1) /\ resp.body.id = IntId(1)

\* C2: every body handle_mcp_request produces holds exactly one of result
\* and error.
C2_ExactlyOne == Http => (HasResult # HasError)

C2_Witness == Http /\ resp.status = 500 /\ HasError /\ ~HasResult

\* C3: a tools/call that names a tool other than get_weather yields a
\* response that carries an error and never an exception: a JSON-RPC error
\* member over HTTP; over stdio the handler returns one text item whose JSON
\* object holds the member "error" and the process goes on.  No tool runs.
C3_UnknownToolError ==
    (Answered /\ IsCall /\ req.params.name # Str(GetWeather)) =>
        /\ resp.kind = "return"
        /\ ~resp.executed
        /\ Http => HasError /\ ~HasResult
        /\ Stdio => /\ OneTextItem
                    /\ HasMember(Payload(resp), <<"error">>)
                    /\ ~HasMember(Payload(resp), <<"success">>)
                    /\ proc = "running"

C3_Witness ==
    /\ Stdio /\ req.params.name = Str(<<"get_forecast">>)
    /\ OneTextItem
    /\ Member(Payload(resp), <<"error">>) = Str(MsgUnknownTool(req.params.name))

C5_WeatherResult ==
    (Answered /\ GoodCall) =>
        /\ OneTextItem
        /\ Member(Payload(resp), <<"success">>) = BoolTrue
        /\ Member(Payload(resp), <<"data", "city">>) = ArgsOf(req.params).city

C5_Witness ==
    /\ Http /\ GoodCall /\ ArgsOf(req.params).city = Str(<<"a", Quote, "b">>)
    /\ ArgsOf(req.params).unit = Str(<<"kelvin">>)
    /\ OneTextItem
    /\ Member(Payload(resp), <<"data", "city">>) = Str(<<"a", Quote, "b">>)

\* C6 as stated: a request whose method is not supported is answered with
\* an error whose code is -32601 (method not found).
C6_MethodNotFound ==
    (Http /\ req.method \notin {"initialize", "tools/list", "tools/call"}) =>
        HasError /\ resp.body.error.code = -32601

\* C7: whatever failed before, no exchange ends in an exception, no message
\* makes the stdio process exit, and a well-formed get_weather call is
\* answered with a success result.
C7_ServerSurvives ==
    /\ proc # "exited"
    /\ phase = "responded" => resp.kind = "return"
    /\ (Answered /\ GoodCall) =>
          OneTextItem /\ Member(Payload(resp), <<"success">>) = BoolTrue

C7_Witness ==
    /\ errors = MaxErrors /\ Answered /\ GoodCall
    /\ OneTextItem /\ Member(Payload(resp), <<"success">>) = BoolTrue

\* An exception was raised while the request was dispatched or the tool call
\* was carried out.
Raised ==
    \/ IsCall /\ ToolCallBody(req, TempMinC).kind = "raise"
    \/ ~IsCall /\ Dispatch(req, TempMinC).kind = "raise"

\* C8 as stated: every internal failure is answered with status 500 and an
\* error envelope that carries the request's id.
C8_Status500 ==
    (Http /\ Raised) => resp.status = 500 /\ HasError /\ resp.body.id = req.id

\* C8 amended: every internal failure is answered with an error envelope of
\* code -32603 that carries the request's id; the status is 500 when the
\* exception reaches handle_mcp_request (an unsupported method) and 200 when
\* it is raised inside handle_tool_call.
C8_ErrorEnvelope ==
    (Http /\ Raised) =>
        /\ HasError /\ ~HasResult
        /\ resp.body.id = req.id
        /\ resp.body.error.code = InternalErrorCode
        /\ resp.status = IF IsCall THEN 200 ELSE 500

C8_Witness ==
    Http /\ Raised /\ resp.status = 500 /\ HasError /\ resp.body.id = IntId(1)

\* C9: a tools/call with no tool name fails with the error that says the
\* name is required, whatever the arguments, and no tool runs.
C9_MissingToolName ==
    (Http /\ IsCall /\ Falsy(req.params.name)) =>
        /\ HasError /\ ~HasResult
        /\ resp.body.error.data = MsgToolNameRequired
        /\ ~resp.executed

C9_Witness ==
    /\ Http /\ IsCall /\ req.params.name = Absent
    /\ ArgsOf(req.params).city = Str(<<"Paris">>)
    /\ HasError /\ resp.body.error.data = MsgToolNameRequired

\* A validation starts waiting for a fetch in this step.
FetchIssued == \E p \in Tasks : task[p].pc = "idle" /\ task'[p].pc = "fetching"

\* C10 as stated: of two validations less than one hour apart at most one
\* issues a fetch, i.e. no fetch is issued less than CacheTtl seconds after
\* the validation that issued the previous one.
C10_OneFetchPerWindow ==
    [][FetchIssued => (last_fetch = NoTime \/ clock - last_fetch >= CacheTtl)]_vars

\* C10, amended: a validation that starts while the cache holds a non-empty
\* key set whose recorded fetch time is less than one hour (CacheTtl
\* seconds) old issues no fetch.  The recorded time is jwks_cache_time, the
\* clock reading that the fetching validation took before its fetch
\* (auth.py:73, stored at auth.py:87), not the time the key set arrived.
C10_FreshCacheNoFetch ==
    [][FetchIssued =>
          ~(jwks_cache.truthy /\ jwks_cache_time # NoTime /\ clock - jwks_cache_time < CacheTtl)]_vars

\* A validation ended without a fetch, served by the key set that a
\* validation fetched CacheTtl - 1 seconds earlier.
C10_Witness ==
    /\ done.now # NoTime /\ ~done.fetched /\ done.detail = "ok"
    /\ last_fetch # NoTime /\ jwks_cache_time = last_fetch
    /\ done.now - last_fetch = CacheTtl - 1

\* The cached key set has passed its window.
Stale == jwks_cache_time # NoTime /\ clock - jwks_cache_time >= CacheTtl

\* What the return of a fetch leaves: the validation goes on with what it
\* received, and a key set that was received is in the cache with the time
\* the validation took before the fetch.
FetchStored ==
    \A p \in Tasks, r \in FetchResponses :
        FetchReturn(p, r) =>
            /\ task'[p].pc = "closing" /\ task'[p].got = r
            /\ r.ok => /\ jwks_cache' = r.keys
                       /\ jwks_cache_time' = task[p].now
                       /\ jwks_cache_time' <= clock

\* C11 as stated: every validation issued after the window of the cached key
\* set has elapsed issues exactly one fetch, and on success the cache holds
\* the fetched key set with its new time.
C11_StaleAlwaysFetches ==
    [][/\ \A p \in Tasks, token \in CacheTokens :
              (Stale /\ ValidateStart(p, token)) =>
                  task'[p].pc = "fetching" /\ last_fetch' = clock
       /\ FetchStored]_vars

\* C11 amended: a validation of a token whose header decodes, issued after
\* the window of the cached key set has elapsed, issues exactly one fetch;
\* when the fetch succeeds the cache holds the fetched key set with the time
\* the validation took before the fetch.
C11_StaleFetchesOnce ==
    [][/\ \A p \in Tasks, token \in CacheTokens :
              (Stale /\ token.wellformed /\ ValidateStart(p, token)) =>
                  task'[p].pc = "fetching" /\ last_fetch' = clock
       /\ FetchStored]_vars

\* A validation waits for its fetch while the cache still holds the key set
\* that passed its window before the validation started.
C11_Witness ==
    \E p \in Tasks :
        /\ task[p].pc = "fetching"
        /\ jwks_cache.truthy /\ fetched_at # NoTime /\ fetched_at < task[p].now
        /\ task[p].now - jwks_cache_time >= CacheTtl

\* A validation is answered from the cache in this step.
ServedFromCache ==
    \E p \in Tasks, token \in CacheTokens :
        token.wellformed /\ ValidateStart(p, token) /\ task' = task

\* C12: a key set served from the cache arrived less than CacheTtl seconds
\* before the validation it is served to, and so did the time stored with it.
C12_NeverServedStale ==
    [][ServedFromCache =>
          /\ fetched_at # NoTime /\ clock - fetched_at < CacheTtl
          /\ jwks_cache_time # NoTime /\ clock - jwks_cache_time < CacheTtl]_vars

\* A validation was answered from a key set that had arrived CacheTtl - 1
\* seconds before.
C12_Witness ==
    /\ done.token = GoodToken /\ ~done.fetched /\ done.status = 200
    /\ fetched_at # NoTime /\ done.now - fetched_at = CacheTtl - 1
    /\ jwks_cache.kids = {"k1", "k2"}

\* C13: a token whose exp is before the time of its validation is rejected,
\* whether its signature is the key's or not, whether the key set came from
\* the cache or from a fetch, and whether the fetch succeeded.
C13_ExpiredRejected ==
    (done.now # NoTime /\ done.token.exp # NoTime /\ done.token.exp < done.now) =>
        done.status = 401

\* An expired token with a good signature was rejected from the cache.
C13_Witness ==
    /\ done.token = ShortToken /\ done.now > ShortToken.exp
    /\ ~done.fetched /\ done.status = 401 /\ done.detail = "Token expiré"

\* The token has no defect other than its expiry.
OtherwiseValid(token) ==
    /\ token.wellformed /\ token.alg = "RS256" /\ token.signer = token.kid
    /\ token.aud /\ token.iss

\* The validation of token ends in this step, with the key set keys in hand:
\* from the cache, or from a fetch that succeeded.
EndsWith(token, keys) ==
    \E p \in Tasks :
        \/ /\ token.wellformed /\ CacheHit(jwks_cache, jwks_cache_time, clock)
           /\ keys = jwks_cache
           /\ ValidateStart(p, token)
        \/ /\ task[p].pc = "closing" /\ task[p].token = token
           /\ task[p].got = FetchOk(keys)
           /\ ValidateEnd(p)

KeySets == {r.keys : r \in FetchResponses}

\* C14 as stated: a token with no other defect whose exp is not strictly in
\* the future, or that has no exp, is rejected with status 401 and the
\* reason of an expired token.
C14_ExpiredReason ==
    [][\A token \in Tokens, keys \in KeySets :
          (/\ OtherwiseValid(token) /\ KeyFound(token, keys)
           /\ (token.exp = NoTime \/ token.exp <= clock)
           /\ EndsWith(token, keys)) =>
              done'.status = 401 /\ done'.detail = "Token expiré"]_vars

\* C15 as stated: a token whose kid is in neither the cached nor the fetched
\* key set is rejected with the reason of an unknown signing key.
C15_UnknownKeyReason ==
    [][\A token \in Tokens, keys \in KeySets :
          (token.kid # "none" /\ ~KeyFound(token, keys) /\ EndsWith(token, keys)) =>
              done'.status = 401 /\ done'.detail = "Clé publique non trouvée"]_vars

\* C16 as stated: a validation whose kid is missing from the key set served
\* from the cache issues a fetch before it fails.
C16_ForcedRefresh ==
    [][\A p \in Tasks, token \in Tokens :
          (/\ token.wellformed /\ token.kid # "none"
           /\ CacheHit(jwks_cache, jwks_cache_time, clock)
           /\ ~KeyFound(token, jwks_cache)
           /\ ValidateStart(p, token)) =>
              task'[p].pc = "fetching"]_vars

\* C17 as stated: when the fetch fails the caller of validate_token sees the
\* service-unavailable failure (status 503).
C17_ServiceUnavailable ==
    [][\A p \in Tasks :
          (task[p].pc = "closing" /\ ~task[p].got.ok /\ ValidateEnd(p)) =>
              /\ done'.status = 503
              /\ done'.detail = "Service d'authentification indisponible"]_vars

\* C18: validate_token returns the claims only for a token whose kid is in
\* the key set in hand, whose signature is that key's, whose algorithm is
\* RS256 and whose audience and issuer are the configured ones.
C18_AcceptsOnlyValid ==
    [][(done' # done /\ done'.status = 200) =>
          /\ OtherwiseValid(done'.token)
          /\ \E p \in Tasks :
                KeyFound(done'.token,
                         IF task[p].pc = "closing" /\ task'[p].pc = "idle"
                         THEN task[p].got.keys ELSE jwks_cache)]_vars

\* A token was accepted with the key set its validation fetched.
C18_Witness ==
    /\ done.token = GoodToken /\ done.fetched /\ done.status = 200
    /\ jwks_cache_time = done.now /\ "k1" \in jwks_cache.kids

\* C19: the role guard answers 403 exactly when the roles of the claims (no
\* roles when the claim is missing) hold neither the required role nor
\* "admin"; otherwise it returns the claims as they are.
C19_RoleGuard ==
    role_out # NoOut =>
        LET held == IF role_user.hasRoles THEN role_user.roles ELSE {}
        IN /\ role_out.status = 403 <=> (role_required \notin held /\ "admin" \notin held)
           /\ role_out.status # 403 => role_out.status = 200 /\ role_out.user = role_user

\* The administrative role opened a route that requires another role.
C19_Witness ==
    /\ role_required = "reader" /\ role_user.hasRoles /\ role_user.roles = {"admin"}
    /\ role_out.status = 200 /\ role_out.user = role_user

\* C20 as stated: when the three AZURE_AD_* variables are set, a POST /mcp
\* whose Authorization header is absent or is no Bearer header is answered
\* with status 401 and nothing is dispatched.
C20_BearerRequired ==
    (Http /\ azureEnv /\ req.auth # "Bearer") =>
        resp.status = 401 /\ ~resp.executed /\ ~HasResult

\* C21: every validation attempt that ended, in success or in failure, wrote
\* an access-log entry, and the entry holds the hashed subject and the hashed
\* address, never the raw values.
C21_EveryAttemptLogged ==
    done.now # NoTime =>
        /\ done.access # NoEntry
        /\ done.access.user = Sha256Prefix(TokenSub) /\ done.access.user # <<TokenSub>>
        /\ done.access.ip_hash = Sha256Prefix(ClientHost) /\ done.access.ip_hash # <<ClientHost>>
\* The tool list an answered request returned: that of GET /tools or that of
\* the tools/list method.
Listed == IF "tools" \in resp.body.keys THEN resp.body.tools ELSE resp.body.result.tools
ListAnswered ==
    /\ mode = "http" /\ phase = "responded" /\ resp.status = 200
    /\ \/ req.method = "GET /tools"
       \/ ValidRequest(req) /\ req.method = "tools/list"

\* C22: GET /tools and tools/list return the same descriptors (names, order,
\* descriptions, input schemas under the same field name), which are the
\* descriptor the stdio server registers.
C22_SameDescriptors ==
    ListAnswered =>
        /\ Listed = HandleListTools(req).body.result.tools
        /\ Listed = <<RegisteredDescriptor>>
\* A message without an id was posted to /mcp and has been answered.
NotificationAnswered ==
    /\ mode = "http" /\ phase = "responded"
    /\ req.id = NoId /\ req.method \in Methods \ {"absent"} /\ req.params.t = "obj"

\* C23: a notification, a message without an id, produces no response: the
\* server sends back no body and reports no failure for it.
C23_NotificationSilent ==
    NotificationAnswered => resp.body.keys = {} /\ resp.status \in {200, 202, 204}
\* The outcome of a POST /mcp call: its status, the members of its body
\* and, for an error, its code.
Outcome(out) == [status |-> out.status, keys |-> out.body.keys, code |-> out.body.error.code]

\* C24: the outcome of a POST /mcp call is the one the request alone
\* determines, whatever was posted before, and tools/list and a well-formed
\* get_weather call are answered with a result whether or not an initialize
\* request was ever dispatched.
C24_Stateless ==
    (mode = "http" /\ phase = "responded" /\ req.method # "GET /tools") =>
        /\ Outcome(resp) = Outcome(PostMcp(req, TempMinC, azureEnv))
        /\ Dispatched(req, "tools/list") => resp.status = 200 /\ HasResult
        /\ (Dispatched(req, "tools/call") /\ GoodCall /\ req.params.arguments.t = "obj"
               /\ ~Falsy(req.params.arguments.city))
             => resp.status = 200 /\ HasResult /\ resp.executed

\* A get_weather call is answered with a result although no initialize was
\* ever dispatched and earlier requests failed.
C24_Witness ==
    /\ Http /\ ~handshake /\ errors > 0
    /\ GoodCall /\ HasResult /\ resp.executed
\* The validations that wait for their key-set fetch.
Fetching == {p \in Tasks : task[p].pc = "fetching"}

\* C25: at most one outbound key-set fetch is in flight at any time.
C25_OneFetchInFlight == Cardinality(Fetching) <= 1
\* One step of a session, as the claim on the initialized flag has it: the
\* flag is raised only by an initialize call that read a line without an
\* error and then wrote the notification, and while the flag is down
\* get_tools and call_weather_tool write nothing and return the refusal.
FlagStep ==
    /\ (~initialized /\ initialized') =>
           /\ call.op = "initialize" /\ ret.op = "initialize" /\ ret.for = call.id
           /\ ret.kind = "line" /\ ~ret.error
           /\ trace.notified
    /\ \A op \in ClientMethods \ {"initialize"} :
           (~initialized /\ ClientCall(op)) =>
               to_server' = to_server /\ message_id' = message_id /\ ret' = Refused(op)

\* C26: the initialized flag is false at creation; it becomes true only
\* after an initialize request got a response without an error and the
\* notifications/initialized notification was then sent; while it is false
\* get_tools and call_weather_tool send nothing and return an empty or
\* failure value.
C26_InitializedFlag == ~initialized /\ [][FlagStep]_vars

\* C28: what send_message returns for a request is an error value or the
\* response to that same request.
C28_OwnResponse == ret.kind = "line" => ret.id = ret.for

\* C27: stopping a session ends the server process: terminate() comes
\* before any kill(), kill() is called only on a process that has not
\* exited when the grace period ends, a stop that has ended has returned
\* and leaves no process, and a stop that has begun ends.
C27_StopEnds ==
    /\ [](trace.killed => trace.terminated)
    /\ [][(trace'.killed /\ ~trace.killed) => (call.pc = "killing" /\ child # "exited")]_vars
    /\ [](call.pc = "stopped" => (child \in {"none", "exited"} /\ ~trace.raised))
    /\ (call.pc = "waiting") ~> (call.pc = "stopped" /\ child = "exited" /\ ~trace.raised)
\* A request has reached the code behind the auth dependency: the dispatch
\* of POST /mcp or the body of GET /tools.
ReachedDispatch ==
    /\ mode = "http" /\ phase = "responded"
    /\ \/ req.method = "GET /tools" /\ resp.status = 200
       \/ ValidRequest(req) /\ resp.status # 401

\* C29: with the three identity-provider variables set, a POST /mcp or
\* GET /tools request reaches dispatch only when the gate is in force and
\* the request carried a bearer token that the gate validated.
C29_GateInForce ==
    (azureEnv /\ ReachedDispatch) =>
        /\ HAS_AZURE_AUTH
        /\ req.auth = "Bearer" /\ VerifyAuth(azureEnv, req.auth) = "allow"
\* C30: a failed key-set fetch leaves the cached key set and its fetch time
\* as they were, and a cache that would not be served before the failure is
\* not served after it, so the next validation fetches again.
C30_FailureLeavesCache ==
    [][\A p \in Tasks :
          (FetchReturn(p, FetchError) \/ (task[p].pc = "closing" /\ ~task[p].got.ok /\ ValidateEnd(p))) =>
              /\ jwks_cache' = jwks_cache
              /\ jwks_cache_time' = jwks_cache_time
              /\ ~CacheHit(jwks_cache, jwks_cache_time, clock)
                    => ~CacheHit(jwks_cache', jwks_cache_time', clock')]_vars

\* A fetch failed while the cache held a key set older than the window:
\* the key set and its time are still the old ones.
C30_Witness ==
    /\ done.fetched /\ done.status = 401
    /\ jwks_cache.truthy /\ jwks_cache_time # NoTime
    /\ done.now - jwks_cache_time >= CacheTtl
    /\ fetched_at < done.now
====
